---- MODULE Spec2Model ----
(***************************************************************************)
(* adlauncher-core: the Downloader (version manifest -> metadata -> client *)
(* jar -> assets -> libraries -> natives) and the Launcher (launch plan    *)
(* and spawn), modelled as one state machine over a shared game directory. *)
(*                                                                         *)
(* Node runs one callback at a time.  A callback (an I/O event and the     *)
(* promise jobs it makes ready) is one or more actions; while a promise    *)
(* job is ready (pc in Ready) no I/O event is delivered, so the jobs run   *)
(* to completion before the next event, as in the event loop.              *)
(*                                                                         *)
(* Strings the code takes apart are sequences of tokens: a file name is a  *)
(* stem (its '-'-separated tokens) and an extension, a path a directory    *)
(* (its components) and a file name, a URL a host and its path tokens.     *)
(***************************************************************************)
EXTENDS Naturals, Sequences, FiniteSets, TLC

\* ------------------------------------------------------------------ bounds
\* download() calls made on the one Downloader instance.
MaxCalls == 2

\* download() calls made where launch() is called too.
MaxLaunchCalls == 1

\* https.globalAgent.maxSockets: sockets the agent opens per origin.
MaxSockets == 2

\* ------------------------------------------------------- strings and paths
Url(h, p) == [host |-> h, path |-> p]

\* path.join(dir..., name): a file in directory dir.
File(dir, stem, ext) == [dir |-> dir, stem |-> stem, ext |-> ext]

\* String.prototype.includes on a tokenised string.
Includes(tokens, t) == \E i \in 1..Len(tokens) : tokens[i] = t

\* The prefixes of a directory path: what mkdirSync(.., {recursive: true}) makes.
Prefixes(d) == { SubSeq(d, 1, n) : n \in 1..Len(d) }

\* ------------------------------------------------ the Downloader's fields
\* this.url, this.cache, this.versions, this.assets, this.libraries, this.natives
UrlMeta == Url("launchermeta.mojang.com", <<"mc", "game", "version_manifest.json">>)
UrlResource == "resources.download.minecraft.net"
CacheDir == "cache"
VersionsDir == "versions"
AssetsDir == "assets"
LibrariesDir == "libraries"
NativesDir == "natives"

\* ------------------------------------------------------- the remote world
\* What the servers hold: the documents of section "external interfaces".
\* A hash is <<its first two characters, the rest>>.
NoArtifact == <<>>
NoClassifiers == {}

Lib(name, artifact, classifiers) ==
  [name |-> name, artifact |-> artifact, classifiers |-> classifiers]

Artifact(host, dir, stem) ==
  << [url |-> Url(host, dir \o stem \o <<"jar">>), dir |-> dir, stem |-> stem, ext |-> "jar"] >>

Native(key, host, tokens, stem) ==
  [key |-> key, url |-> Url(host, tokens \o stem), dir |-> tokens, stem |-> stem, ext |-> "jar"]

ManifestDoc ==
  << [id |-> "1.19", type |-> "release", url |-> Url("piston-meta.mojang.com", <<"1.19", "json">>)],
     [id |-> "23w",  type |-> "snapshot", url |-> Url("piston-meta.mojang.com", <<"23w", "json">>)],
     [id |-> "1.8",  type |-> "release", url |-> Url("piston-meta.mojang.com", <<"1.8", "json">>)],
     [id |-> "1.14.2", type |-> "release", url |-> Url("piston-meta.mojang.com", <<"1.14.2", "json">>)],
     [id |-> "1.20", type |-> "release", url |-> Url("piston-meta.mojang.com", <<"1.20", "json">>)] >>

\* 1.19: two asset keys with one hash, one library listed twice, one entry
\* with both the windows and the windows-64 classifier.  The last element of
\* its structured argument list is a rule object, one opaque element to the
\* code ("{rules, value}").
Meta119 ==
  [ id |-> "1.19",
    client |-> Url("piston-data.mojang.com", <<"1.19", "client", "jar">>),
    assetIndex |-> Url("piston-meta.mojang.com", <<"1.19", "index">>),
    mainClass |-> "net.minecraft.client.main.Main",
    libraries |-> <<
      Lib([group |-> "com.mojang", artifact |-> <<"logging">>, ver |-> "1.0"],
          Artifact("libraries.minecraft.net", <<"com", "mojang">>, <<"logging", "1.0">>),
          NoClassifiers),
      Lib([group |-> "com.mojang", artifact |-> <<"logging">>, ver |-> "1.0"],
          Artifact("libraries.minecraft.net", <<"com", "mojang">>, <<"logging", "1.0">>),
          NoClassifiers),
      Lib([group |-> "org.lwjgl", artifact |-> <<"lwjgl">>, ver |-> "3.2.1"],
          NoArtifact,
          { Native(k, "libraries.minecraft.net", <<"org", "lwjgl">>, <<"lwjgl", "3.2.1", k>>) :
              k \in {"natives-windows", "natives-windows-64"} }) >>,
    minecraftArguments |-> <<>>,
    arguments |-> << <<"--username", "${auth_player_name}", "--version", "${version_name}",
                       "{rules, value}">> >> ]

\* 1.8: two distinct assets in one shard, one library, one native bundle
\* served from the nightly channel, and a legacy argument string.
Meta18 ==
  [ id |-> "1.8",
    client |-> Url("piston-data.mojang.com", <<"1.8", "client", "jar">>),
    assetIndex |-> Url("piston-meta.mojang.com", <<"1.8", "index">>),
    mainClass |-> "net.minecraft.client.main.Main",
    libraries |-> <<
      Lib([group |-> "org.lwjgl", artifact |-> <<"lwjgl">>, ver |-> "2.9.4"],
          Artifact("libraries.minecraft.net", <<"org", "lwjgl">>, <<"lwjgl", "2.9.4">>),
          { Native("natives-windows", "libraries.minecraft.net", <<"org", "lwjgl", "nightly">>,
                   <<"lwjgl", "2.9.4", "natives-windows">>) }),
      Lib([group |-> "com.mojang", artifact |-> <<"realms">>, ver |-> "1.3"],
          NoArtifact,
          { Native("natives-linux", "libraries.minecraft.net", <<"com", "mojang">>,
                   <<"realms", "1.3", "natives-linux">>) }) >>,
    minecraftArguments |-> <<"--username", "${auth_player_name}", "--accessToken", "${auth_access_token}">>,
    arguments |-> <<>> ]

\* 1.14.2 and 1.20: the same two libraries, one of them the lwjgl 3.2.1 jar.
MetaLwjgl(id) ==
  [ id |-> id,
    client |-> Url("piston-data.mojang.com", <<id, "client", "jar">>),
    assetIndex |-> Url("piston-meta.mojang.com", <<id, "index">>),
    mainClass |-> "net.minecraft.client.main.Main",
    libraries |-> <<
      Lib([group |-> "org.lwjgl", artifact |-> <<"lwjgl">>, ver |-> "3.2.1"],
          Artifact("libraries.minecraft.net", <<"org", "lwjgl">>, <<"lwjgl", "3.2.1">>),
          NoClassifiers),
      Lib([group |-> "com.mojang", artifact |-> <<"logging">>, ver |-> "1.0"],
          Artifact("libraries.minecraft.net", <<"com", "mojang">>, <<"logging", "1.0">>),
          NoClassifiers) >>,
    minecraftArguments |-> <<>>,
    arguments |-> << <<"--username", "${auth_player_name}", "--width", "${resolution_width}">> >> ]

Index119 == [k \in {"icons/icon.png", "lang/en.json"} |-> [hash |-> <<"ab", "cd12">>]]
Index18  == [k \in {"icons/icon.png", "lang/en.json"} |->
               [hash |-> IF k = "icons/icon.png" THEN <<"ab", "cd12">> ELSE <<"ab", "ef34">>]]

\* The document a URL serves (JSON.parse of the bytes fetched from it).
IsManifest(u) == u = UrlMeta
IsMeta(u) ==
  /\ u \in {ManifestDoc[i].url : i \in 1..Len(ManifestDoc)}
  /\ u.path[1] \in {"1.19", "1.8", "1.14.2", "1.20"}
MetaAt(u) ==
  IF u.path[1] = "1.19" THEN Meta119
  ELSE IF u.path[1] = "1.8" THEN Meta18
  ELSE MetaLwjgl(u.path[1])
IndexAt(u) == IF u.path[1] = "1.19" THEN Index119 ELSE Index18

\* The order in which for..in visits the asset index's keys.
IndexKeys == <<"icons/icon.png", "lang/en.json">>

\* --------------------------------------------------------------- the state
VARIABLES
  version,    \* this.version
  root,       \* this.root
  file,       \* this.file: the parsed version metadata
  pc,         \* per download() call: where its async executor stands
  promise,    \* per call and step: the state of the step's promise
  requests,   \* the https requests not yet ended, in the order of https.get
  disk,       \* the files of the file system: path -> the bytes' origin
  dirs,       \* the directories of the file system
  console,    \* what console.log has printed about single transfers
  outcome,    \* how the item transfers begun since the last download() call ended
  thrown,     \* per call: the error that ended one of its executors, if any
  netCalls,   \* per call: the https.get calls made for it
  launched    \* what the last launch() call did

vars == <<version, root, file, pc, promise, requests, disk, dirs, console, outcome, thrown,
          netCalls, launched>>

Calls == 1..MaxCalls
Steps == <<"version", "client", "assets", "libraries", "natives">>
StepSet == {Steps[i] : i \in 1..Len(Steps)} \cup {"download"}

Undefined == "undefined"
NoFile == [id |-> Undefined]

\* The version strings and roots download() is called with ("" stands for
\* every falsy version).
Requested == {"1.19", "1.8", "23w", "9.9", ""}
Roots == {"game"}

\* ------------------------------------------------------------ the layout
ManifestPath(r) == File(<<r, CacheDir, "json">>, <<"version_manifest">>, "json")
VersionJson(r, v) == File(<<r, VersionsDir, v>>, <<v>>, "json")
VersionJar(r, v) == File(<<r, VersionsDir, v>>, <<v>>, "jar")
IndexPath(r, v) == File(<<r, AssetsDir, "indexes">>, <<v>>, "json")
MirrorPath(r, v) == File(<<r, CacheDir, "json">>, <<v>>, "json")
ObjectPath(r, h) == File(<<r, AssetsDir, "objects", h[1]>>, h, "")
ObjectUrl(h) == Url(UrlResource, h)
LibPath(r, a) == File(<<r, LibrariesDir>> \o a.dir, a.stem, a.ext)
ScratchPath(r, n) == File(<<r, NativesDir>>, n.stem, n.ext)
ExtractedPath(r, v, n) == File(<<r, NativesDir, v>>, n.stem, "dll")

\* ------------------------------------------------- promises and the agent
Resolve(p) == IF p = "pending" THEN "resolved" ELSE p
RejectSettled(p) == "rejected"
Reject(p) == IF p = "pending" THEN "rejected" ELSE p

Request(c, kind, item, url, dest) ==
  [call |-> c, kind |-> kind, item |-> item, url |-> url, dest |-> dest, st |-> "new"]

ActiveOn(reqs, h) ==
  Cardinality({i \in 1..Len(reqs) : reqs[i].st = "active" /\ reqs[i].url.host = h})

\* https.get through the global agent: the request gets a socket when its
\* origin has fewer than maxSockets open, and waits in the agent otherwise.
GetUncapped(reqs, rq) == Append(reqs, [rq EXCEPT !.st = "active"])
Get(reqs, rq) ==
  Append(reqs, [rq EXCEPT !.st = IF ActiveOn(reqs, rq.url.host) < MaxSockets
                                 THEN "active" ELSE "queued"])

RECURSIVE GetAll(_, _)
GetAll(reqs, todo) ==
  IF todo = <<>> THEN reqs ELSE GetAll(Get(reqs, Head(todo)), Tail(todo))

\* A request ends: its socket closes and the agent hands a socket to the
\* oldest request waiting for the same origin.
Waiting(reqs, h) == {j \in 1..Len(reqs) : reqs[j].st = "queued" /\ reqs[j].url.host = h}
Oldest(S) == CHOOSE j \in S : \A k \in S : j <= k
End(reqs, i) ==
  LET h == reqs[i].url.host
      rest == SubSeq(reqs, 1, i - 1) \o SubSeq(reqs, i + 1, Len(reqs))
  IN IF Waiting(rest, h) # {} /\ ActiveOn(rest, h) < MaxSockets
     THEN [rest EXCEPT ![Oldest(Waiting(rest, h))].st = "active"]
     ELSE rest

\* The file system after a stream has written dest.
Write(d, dest, bytes) == [p \in DOMAIN d \cup {dest} |-> IF p = dest THEN bytes ELSE d[p]]
Unlink(d, dest) == [p \in DOMAIN d \ {dest} |-> d[p]]
EmptyDisk == [p \in {} |-> UrlMeta]

\* pc[c] is "idle" before the call, then the step whose promise download()'s
\* executor awaits, then "done" (it ran to its end) or "threw" (an await threw:
\* the executor is async, so its throw settles no promise).
StepNames == {Steps[i] : i \in 1..Len(Steps)}

\* `await this.downloadX()` in download(): the executor goes on once the
\* step's promise is resolved, and throws once it is rejected.
ResumesUnawaited(c, step) == pc[c] = step
Resumes(c, step) == pc[c] = step /\ promise[c][step] = "resolved"
Throws(c) == pc[c] \in StepNames /\ promise[c][pc[c]] = "rejected"

\* No promise job is ready: the event loop may deliver an I/O event.
LoopIdle == \A c \in Calls : ~ Throws(c) /\ \A s \in StepNames : ~ Resumes(c, s)
\* Nothing is left to run: no job is ready and no request is open.
AtRest == LoopIdle /\ requests = <<>>

NoLaunch ==
  [status |-> "none", at |-> "", options |-> <<>>, reqLibs |-> {}, libs |-> {}, jar |-> {},
   mainClass |-> "", jvm |-> <<>>, game |-> <<>>]

Init ==
  /\ version = Undefined
  /\ root = Undefined
  /\ file = NoFile
  /\ pc = [c \in Calls |-> "idle"]
  /\ promise = [c \in Calls |-> [s \in StepSet |-> "none"]]
  /\ requests = <<>>
  /\ disk = EmptyDisk
  /\ dirs = {}
  /\ console = {}
  /\ outcome = {}
  /\ thrown = [c \in Calls |-> "none"]
  /\ netCalls = [c \in Calls |-> 0]
  /\ launched = NoLaunch

\* ------------------------------------------------------------ download()
\* download(version, root) up to its first suspension: it assigns the
\* fields, rejects on a falsy version WITHOUT returning, and runs
\* downloadVersion() up to the manifest transfer.
Download(c, v, r) ==
  /\ pc[c] = "idle"
  /\ \A b \in Calls : b < c => pc[b] # "idle"
  /\ LoopIdle
  /\ version' = v
  /\ root' = r
  /\ promise' = [promise EXCEPT ![c]["download"] = IF v = "" THEN "rejected" ELSE "pending",
                                ![c]["version"] = "pending"]
  /\ dirs' = dirs \cup Prefixes(<<r, CacheDir, "json">>)
  /\ requests' = Get(requests, Request(c, "manifest", 0, UrlMeta, ManifestPath(r)))
  /\ netCalls' = [netCalls EXCEPT ![c] = @ + 1]
  /\ pc' = [pc EXCEPT ![c] = "version"]
  /\ outcome' = {}
  /\ UNCHANGED <<file, disk, console, thrown, launched>>

\* The manifest entry downloadVersion looks for (Array.prototype.find).
Found(doc, v) == {i \in 1..Len(doc) : doc[i].type = "release" /\ doc[i].id = v}

\* The manifest transfer finishes; downloadVersion goes on: it parses the
\* manifest, looks the version up (a missing entry throws inside the async
\* executor, which settles no promise) and starts the metadata transfer.
ManifestFinish(i) ==
  /\ LoopIdle
  /\ i \in 1..Len(requests)
  /\ requests[i].st = "active" /\ requests[i].kind = "manifest"
  /\ LET c == requests[i].call
         d == Write(disk, requests[i].dest, requests[i].url)
         ended == End(requests, i)
         hit == IF ManifestPath(root) \in DOMAIN d /\ IsManifest(d[ManifestPath(root)])
                THEN Found(ManifestDoc, version) ELSE {}
     IN /\ disk' = d
        /\ IF hit = {}
           THEN /\ requests' = ended
                /\ thrown' = [thrown EXCEPT ![c] = "lookup"]
                /\ UNCHANGED <<dirs, netCalls, launched>>
           ELSE /\ dirs' = dirs \cup Prefixes(<<root, VersionsDir, version>>)
                /\ requests' = Get(ended, Request(c, "meta", 0, ManifestDoc[Oldest(hit)].url,
                                                  VersionJson(root, version)))
                /\ netCalls' = [netCalls EXCEPT ![c] = @ + 1]
                /\ UNCHANGED thrown
  /\ UNCHANGED <<version, root, file, pc, promise, console, outcome, launched>>

\* The manifest transfer fails: the await in downloadVersion's async executor
\* throws, nothing catches it, and no promise is ever settled.
ManifestError(i) ==
  /\ LoopIdle
  /\ i \in 1..Len(requests)
  /\ requests[i].st = "active" /\ requests[i].kind = "manifest"
  /\ requests' = End(requests, i)
  /\ thrown' = [thrown EXCEPT ![requests[i].call] = "manifest"]
  /\ UNCHANGED <<version, root, file, pc, promise, disk, dirs, console, outcome, netCalls, launched>>

\* The metadata transfer finishes: downloadVersion resolves, and download()
\* goes on to downloadClient().
MetaFinish(i) ==
  /\ LoopIdle
  /\ i \in DOMAIN requests
  /\ requests[i].st = "active" /\ requests[i].kind = "meta"
  /\ disk' = Write(disk, requests[i].dest, requests[i].url)
  /\ requests' = End(requests, i)
  /\ promise' = [promise EXCEPT ![requests[i].call]["version"] = Resolve(@)]
  /\ UNCHANGED <<version, root, file, pc, dirs, console, outcome, thrown, netCalls, launched>>

\* The metadata transfer fails: the catch in downloadVersion rejects its promise.
MetaError(i) ==
  /\ LoopIdle
  /\ i \in DOMAIN requests
  /\ requests[i].st = "active" /\ requests[i].kind = "meta"
  /\ requests' = End(requests, i)
  /\ thrown' = [thrown EXCEPT ![requests[i].call] = "meta"]
  /\ promise' = [promise EXCEPT ![requests[i].call]["version"] = Reject(@)]
  /\ UNCHANGED <<version, root, file, pc, disk, dirs, console, outcome, netCalls, launched>>

\* downloadClient() up to the client-jar transfer: it reads and parses the
\* version's metadata into this.file (a missing file throws in its executor).
DownloadClient(c) ==
  /\ Resumes(c, "version")
  /\ LET src == VersionJson(root, version)
     IN IF src \in DOMAIN disk /\ IsMeta(disk[src])
        THEN /\ file' = MetaAt(disk[src])
             /\ dirs' = dirs \cup {<<root, VersionsDir, version>>}
             /\ requests' = Get(requests, Request(c, "client", 0, MetaAt(disk[src]).client,
                                                  VersionJar(root, version)))
             /\ netCalls' = [netCalls EXCEPT ![c] = @ + 1]
             /\ UNCHANGED thrown
        ELSE /\ file' = NoFile
             /\ thrown' = [thrown EXCEPT ![c] = "read"]
             /\ UNCHANGED <<dirs, requests, netCalls, launched>>
  /\ promise' = [promise EXCEPT ![c]["client"] = "pending"]
  /\ pc' = [pc EXCEPT ![c] = "client"]
  /\ UNCHANGED <<version, root, disk, console, outcome, launched>>

ClientFinish(i) ==
  /\ LoopIdle
  /\ i \in DOMAIN requests
  /\ requests[i].st = "active" /\ requests[i].kind = "client"
  /\ disk' = Write(disk, requests[i].dest, requests[i].url)
  /\ requests' = End(requests, i)
  /\ promise' = [promise EXCEPT ![requests[i].call]["client"] = Resolve(@)]
  /\ UNCHANGED <<version, root, file, pc, dirs, console, outcome, thrown, netCalls, launched>>

ClientError(i) ==
  /\ LoopIdle
  /\ i \in DOMAIN requests
  /\ requests[i].st = "active" /\ requests[i].kind = "client"
  /\ requests' = End(requests, i)
  /\ thrown' = [thrown EXCEPT ![requests[i].call] = "client"]
  /\ promise' = [promise EXCEPT ![requests[i].call]["client"] = Reject(@)]
  /\ UNCHANGED <<version, root, file, pc, disk, dirs, console, outcome, netCalls, launched>>

\* downloadAssets() up to the transfer of the asset index.
DownloadAssets(c) ==
  /\ Resumes(c, "client")
  /\ promise' = [promise EXCEPT ![c]["assets"] = "pending"]
  /\ pc' = [pc EXCEPT ![c] = "assets"]
  /\ dirs' = dirs \cup Prefixes(<<root, AssetsDir, "indexes">>)
  /\ IF file = NoFile
     THEN /\ thrown' = [thrown EXCEPT ![c] = "read"]
          /\ UNCHANGED <<requests, netCalls, launched>>
     ELSE /\ requests' = Get(requests, Request(c, "index", 0, file.assetIndex,
                                               IndexPath(root, version)))
          /\ netCalls' = [netCalls EXCEPT ![c] = @ + 1]
          /\ UNCHANGED thrown
  /\ UNCHANGED <<version, root, file, disk, console, outcome, launched>>

\* The index is on disk: the same URL is fetched again into the cache.
IndexFinish(i) ==
  /\ LoopIdle
  /\ i \in DOMAIN requests
  /\ requests[i].st = "active" /\ requests[i].kind = "index"
  /\ disk' = Write(disk, requests[i].dest, requests[i].url)
  /\ LET c == requests[i].call
     IN IF file = NoFile
        THEN /\ requests' = End(requests, i)
             /\ thrown' = [thrown EXCEPT ![c] = "read"]
             /\ UNCHANGED netCalls
        ELSE /\ requests' = Get(End(requests, i), Request(c, "mirror", 0, file.assetIndex,
                                                          MirrorPath(root, version)))
             /\ netCalls' = [netCalls EXCEPT ![c] = @ + 1]
             /\ UNCHANGED thrown
  /\ UNCHANGED <<version, root, file, pc, promise, dirs, console, outcome, launched>>

\* Either transfer of the index fails: the await in downloadAssets' async
\* executor throws and the step's promise stays pending.
IndexError(i) ==
  /\ LoopIdle
  /\ i \in DOMAIN requests
  /\ requests[i].st = "active" /\ requests[i].kind \in {"index", "mirror"}
  /\ requests' = End(requests, i)
  /\ thrown' = [thrown EXCEPT ![requests[i].call] = requests[i].kind]
  /\ UNCHANGED <<version, root, file, pc, promise, disk, dirs, console, outcome, netCalls, launched>>

\* The requests of the for..in loop over the index's objects, in its order.
AssetRequests(c, r, index) ==
  LET keys == SelectSeq(IndexKeys, LAMBDA k : k \in DOMAIN index)
  IN [n \in 1..Len(keys) |->
        Request(c, "asset", n, ObjectUrl(index[keys[n]].hash), ObjectPath(r, index[keys[n]].hash))]

\* The mirror copy is on disk: downloadAssets parses the index, starts one
\* transfer per key without awaiting any, and resolves.
MirrorFinish(i) ==
  /\ LoopIdle
  /\ i \in DOMAIN requests
  /\ requests[i].st = "active" /\ requests[i].kind = "mirror"
  /\ LET c == requests[i].call
         d == Write(disk, requests[i].dest, requests[i].url)
         src == IndexPath(root, version)
     IN /\ disk' = d
        /\ IF src \in DOMAIN d
           THEN LET todo == AssetRequests(c, root, IndexAt(d[src]))
                IN /\ dirs' = dirs \cup {<<root, AssetsDir, "objects">>}
                              \cup {todo[n].dest.dir : n \in DOMAIN todo}
                   /\ requests' = GetAll(End(requests, i), todo)
                   /\ netCalls' = [netCalls EXCEPT ![c] = @ + Len(todo)]
                   /\ promise' = [promise EXCEPT ![c]["assets"] = Resolve(@)]
                   /\ UNCHANGED thrown
           ELSE /\ requests' = End(requests, i)
                /\ thrown' = [thrown EXCEPT ![c] = "read"]
                /\ UNCHANGED <<dirs, netCalls, promise>>
  /\ UNCHANGED <<version, root, file, pc, console, outcome, launched>>

\* An asset transfer ends: .then(a => console.log(a)).catch(e => console.log(e))
AssetFinish(i) ==
  /\ LoopIdle
  /\ i \in DOMAIN requests
  /\ requests[i].st = "active" /\ requests[i].kind = "asset"
  /\ disk' = Write(disk, requests[i].dest, requests[i].url)
  /\ requests' = End(requests, i)
  /\ console' = console \cup {[kind |-> "asset",
                               item |-> requests[i].item, what |-> "ok"]}
  /\ outcome' = outcome \cup {[kind |-> "asset", item |-> requests[i].item, what |-> "ok"]}
  /\ UNCHANGED <<version, root, file, pc, promise, dirs, thrown, netCalls, launched>>

AssetError(i) ==
  /\ LoopIdle
  /\ i \in DOMAIN requests
  /\ requests[i].st = "active" /\ requests[i].kind = "asset"
  /\ requests' = End(requests, i)
  /\ outcome' = outcome \cup {[kind |-> "asset", item |-> requests[i].item, what |-> "error"]}
  /\ console' = console \cup {[kind |-> "asset",
                               item |-> requests[i].item, what |-> "error"]}
  /\ UNCHANGED <<version, root, file, pc, promise, disk, dirs, thrown, netCalls, launched>>

\* The requests of downloadLibraries' forEach: one per entry with an artifact.
LibraryRequests(c, r, libs) ==
  LET idx == SelectSeq([n \in 1..Len(libs) |-> n], LAMBDA n : libs[n].artifact # NoArtifact)
  IN [k \in 1..Len(idx) |->
        Request(c, "library", idx[k], libs[idx[k]].artifact[1].url,
                LibPath(r, libs[idx[k]].artifact[1]))]

\* downloadLibraries(): the executor starts every transfer (each callback of
\* the forEach runs up to its await) and then resolves, all in one go.
DownloadLibraries(c) ==
  /\ Resumes(c, "assets")
  /\ pc' = [pc EXCEPT ![c] = "libraries"]
  /\ IF file = NoFile
     THEN /\ promise' = [promise EXCEPT ![c]["libraries"] = "rejected"]
          /\ dirs' = dirs \cup {<<root, LibrariesDir>>}
          /\ UNCHANGED <<requests, netCalls, launched>>
     ELSE LET todo == LibraryRequests(c, root, file.libraries)
          IN /\ dirs' = dirs \cup {<<root, LibrariesDir>>}
                         \cup UNION {Prefixes(todo[n].dest.dir) : n \in DOMAIN todo}
             /\ requests' = GetAll(requests, todo)
             /\ netCalls' = [netCalls EXCEPT ![c] = @ + Len(todo)]
             /\ promise' = [promise EXCEPT ![c]["libraries"] = "resolved"]
  /\ UNCHANGED <<version, root, file, disk, console, outcome, thrown, launched>>

\* A library transfer ends.  The callback's await returns (nothing follows
\* it) or throws into its catch, whose reject() finds the promise settled.
LibraryFinish(i) ==
  /\ LoopIdle
  /\ i \in DOMAIN requests
  /\ requests[i].st = "active" /\ requests[i].kind = "library"
  /\ disk' = Write(disk, requests[i].dest, requests[i].url)
  /\ requests' = End(requests, i)
  /\ outcome' = outcome \cup {[kind |-> "library", item |-> requests[i].item, what |-> "ok"]}
  /\ UNCHANGED <<version, root, file, pc, promise, dirs, console, thrown, netCalls, launched>>

LibraryError(i) ==
  /\ LoopIdle
  /\ i \in DOMAIN requests
  /\ requests[i].st = "active" /\ requests[i].kind = "library"
  /\ requests' = End(requests, i)
  /\ outcome' = outcome \cup {[kind |-> "library", item |-> requests[i].item, what |-> "error"]}
  /\ promise' = [promise EXCEPT ![requests[i].call]["libraries"] = Reject(@)]
  /\ UNCHANGED <<version, root, file, pc, disk, dirs, console, thrown, netCalls, launched>>

\* el['natives-windows'] ? el['natives-windows'] : el['natives-windows-64']
PickNative(el) ==
  IF \E n \in el : n.key = "natives-windows"
  THEN {n \in el : n.key = "natives-windows"}
  ELSE {n \in el : n.key = "natives-windows-64"}

NativeRequests(c, r, libs) ==
  LET idx == SelectSeq([n \in 1..Len(libs) |-> n], LAMBDA n : PickNative(libs[n].classifiers) # {})
  IN [k \in 1..Len(idx) |->
        LET nat == CHOOSE n \in PickNative(libs[idx[k]].classifiers) : TRUE
        IN Request(c, "native", idx[k], nat.url, ScratchPath(r, nat))]

\* downloadNatives(): as downloadLibraries, for the entries with a classifier
\* of this platform.
DownloadNatives(c) ==
  /\ Resumes(c, "libraries")
  /\ pc' = [pc EXCEPT ![c] = "natives"]
  /\ IF file = NoFile
     THEN /\ promise' = [promise EXCEPT ![c]["natives"] = "rejected"]
          /\ UNCHANGED <<requests, netCalls, launched>>
     ELSE LET todo == NativeRequests(c, root, file.libraries)
          IN /\ requests' = GetAll(requests, todo)
             /\ netCalls' = [netCalls EXCEPT ![c] = @ + Len(todo)]
             /\ promise' = [promise EXCEPT ![c]["natives"] = "resolved"]
  /\ dirs' = dirs \cup {<<root, NativesDir>>}
  /\ UNCHANGED <<version, root, file, disk, console, outcome, thrown, launched>>

\* A native bundle is in the scratch place: the callback deletes it unread
\* (version 1.8 from the nightly channel) or unpacks it into natives/<version>
\* and deletes it, with this.root and this.version as they are now.
NativeFinish(i) ==
  /\ LoopIdle
  /\ i \in DOMAIN requests
  /\ requests[i].st = "active" /\ requests[i].kind = "native"
  /\ LET d == Write(disk, requests[i].dest, requests[i].url)
         scratch == ScratchPath(root, requests[i].dest)
     IN IF version = "1.8" /\ Includes(requests[i].url.path, "nightly")
        THEN /\ disk' = Unlink(d, scratch)
             /\ UNCHANGED dirs
        ELSE IF scratch \in DOMAIN d
        THEN /\ disk' = Unlink(Write(d, ExtractedPath(root, version, requests[i].dest), d[scratch]),
                               scratch)
             /\ dirs' = dirs \cup {<<root, NativesDir, version>>}
        ELSE /\ disk' = d
             /\ UNCHANGED dirs
  /\ requests' = End(requests, i)
  /\ outcome' = outcome \cup {[kind |-> "native", item |-> requests[i].item, what |-> "ok"]}
  /\ UNCHANGED <<version, root, file, pc, promise, console, thrown, netCalls, launched>>

NativeError(i) ==
  /\ LoopIdle
  /\ i \in DOMAIN requests
  /\ requests[i].st = "active" /\ requests[i].kind = "native"
  /\ requests' = End(requests, i)
  /\ outcome' = outcome \cup {[kind |-> "native", item |-> requests[i].item, what |-> "error"]}
  /\ promise' = [promise EXCEPT ![requests[i].call]["natives"] = Reject(@)]
  /\ UNCHANGED <<version, root, file, pc, disk, dirs, console, thrown, netCalls, launched>>

\* download() after its last await: resolve (a no-op on a rejected promise).
DownloadResolve(c) ==
  /\ Resumes(c, "natives")
  /\ promise' = [promise EXCEPT ![c]["download"] = Resolve(@)]
  /\ pc' = [pc EXCEPT ![c] = "done"]
  /\ UNCHANGED <<version, root, file, requests, disk, dirs, console, outcome, thrown, netCalls, launched>>

\* An awaited step promise is rejected: the await throws inside download()'s
\* async executor; nothing catches it and download()'s promise is not settled.
DownloadThrow(c) ==
  /\ Throws(c)
  /\ pc' = [pc EXCEPT ![c] = "threw"]
  /\ UNCHANGED <<version, root, file, promise, requests, disk, dirs, console, outcome, thrown,
                  netCalls, launched>>

\* ============================================================ launch()
\* The overlay profiles an installer puts under versions/: they are never
\* downloaded by the Downloader.
Fabric ==
  [ id |-> <<"1.19", "fabric", "0.1">>,
    mainClass |-> "net.fabricmc.loader.launch.knot.KnotClient",
    libraries |-> << [name |-> [group |-> "net.fabricmc", artifact |-> <<"fabric", "loader">>,
                                ver |-> "0.14"]] >>,
    minecraftArguments |-> <<>>,
    arguments |-> << <<"--loader", "${version_name}", "${unknown}">> >> ]

Forge ==
  [ id |-> <<"1.19", "forge", "41">>,
    mainClass |-> "cpw.mods.modlauncher.Launcher",
    libraries |-> << [name |-> [group |-> "net.minecraftforge", artifact |-> <<"forge">>,
                                ver |-> "41"]],
                     [name |-> [group |-> "org.lwjgl", artifact |-> <<"lwjgl">>,
                                ver |-> "3.2.1"]] >>,
    minecraftArguments |-> <<"--username", "${auth_player_name}", "--tweakClass", "fml">>,
    arguments |-> <<>> ]

Installer(o) == Url("installer", o.id)
IsOverlay(u) == u \in {Installer(Fabric), Installer(Forge)}
OverlayAt(u) == IF u = Installer(Fabric) THEN Fabric ELSE Forge

\* The tokens the pattern /\b1\.\d+(\.\d+)?\b/ matches (a match inside a
\* longer token is not modelled).
SemVer == {"1.19", "1.8", "1.14.2", "1.20"}

\* options.version.match(pattern): the matching tokens, <<>> for null.
Match(tokens) == SelectSeq(tokens, LAMBDA t : t \in SemVer)

\* The string a tokenised version id spells.
RECURSIVE Id(_)
Id(tokens) ==
  IF Len(tokens) = 1 THEN tokens[1] ELSE tokens[1] \o "-" \o Id(Tail(tokens))

\* What launch() is called with.
LaunchVersions ==
  {<<"1.19">>, <<"1.8">>, <<"1.14.2">>, <<"1.20">>, <<"1.19", "fabric", "0.1">>,
   <<"1.19", "forge", "41">>, <<"latest">>}
Options == [version : LaunchVersions, gameDirectory : Roots, username : {"Steve"},
            min : {"1G"}, max : {"2G"}]

ProfilesPath(r) == File(<<r>>, <<"launcher_profiles">>, "json")
OptionsPath(r) == File(<<r>>, <<"options">>, "txt")
UserCachePath(r) == File(<<r>>, <<"usercache">>, "json")
Local(what) == Url("local", <<what>>)

\* createProfile(root)
CreateProfileSkip(d, r) == d
CreateProfile(d, r) ==
  IF ProfilesPath(r) \in DOMAIN d THEN d ELSE Write(d, ProfilesPath(r), Local("profiles"))

\* auth(root, us): the cached uuid of the user, a fresh one when the cache
\* cannot be read or does not hold the user.
Auth(d, r, us) ==
  IF UserCachePath(r) \in DOMAIN d /\ d[UserCachePath(r)] = Local(us)
  THEN "uuid-of-" \o us ELSE "uuid-v4"

\* path.basename(element.downloads.artifact.path)
Basename(a) == [stem |-> a.stem, ext |-> a.ext]
\* element.name.split(':').slice(-2).join("-").concat('.jar')
CoordinateJar(n) == [stem |-> n.artifact \o <<n.ver>>, ext |-> "jar"]

BaseLibs(m) ==
  {Basename(m.libraries[n].artifact[1]) :
     n \in {k \in 1..Len(m.libraries) : m.libraries[k].artifact # NoArtifact}}
OverlayLibsNone(o) == {}
OverlayLibs(o) == {CoordinateJar(o.libraries[n].name) : n \in 1..Len(o.libraries)}

\* encontrarArchivosJAR(directorio, files, ver) on the files d and the
\* directories ds: the walk goes down every subdirectory and adds the files it
\* keeps to the classpath string (their order in it is not modelled).  A name
\* includes '3.2.1' when one of its tokens is 3.2.1.
LegacyVersions == {"1.14", "1.14.1", "1.14.2", "1.14.3"}
IsUnder(dir, top) == Len(dir) >= Len(top) /\ SubSeq(dir, 1, Len(top)) = top
EncontrarSinLegado(d, ds, directorio, files, ver) ==
  {p \in DOMAIN d :
     IsUnder(p.dir, directorio) /\ p.ext = "jar" /\ Basename(p) \in files
       /\ ~ Includes(p.stem, "3.2.1")}
RECURSIVE EncontrarArchivosJAR(_, _, _, _, _)
EncontrarArchivosJAR(d, ds, directorio, files, ver) ==
  LET archivos == {p \in DOMAIN d : p.dir = directorio}
      below == {s \in ds : Len(s) = Len(directorio) + 1 /\ IsUnder(s, directorio)}
      kept == {p \in archivos :
                 IF ver \in LegacyVersions
                 THEN p.ext = "jar" /\ Basename(p) \in files
                 ELSE p.ext = "jar" /\ Basename(p) \in files /\ ~ Includes(p.stem, "3.2.1")}
  IN kept \cup UNION {EncontrarArchivosJAR(d, ds, s, files, ver) : s \in below}

\* The fields object: placeholder -> value.
Placeholders ==
  {"${auth_access_token}", "${auth_session}", "${auth_player_name}", "${auth_uuid}",
   "${auth_xuid}", "${user_properties}", "${user_type}", "${version_name}",
   "${assets_index_name}", "${game_directory}", "${assets_root}", "${game_assets}",
   "${version_type}", "${clientid}", "${resolution_width}", "${resolution_height}"}
Fields(uuid, username, ver, r) ==
  [k \in Placeholders |->
     CASE k \in {"${auth_access_token}", "${auth_session}", "${auth_uuid}", "${auth_xuid}",
                 "${clientid}"} -> uuid
       [] k = "${auth_player_name}" -> username
       [] k = "${user_properties}" -> "{}"
       [] k = "${user_type}" -> "mojang"
       [] k \in {"${version_name}", "${assets_index_name}"} -> ver
       [] k = "${game_directory}" -> r
       [] k \in {"${assets_root}", "${game_assets}"} -> r \o "/" \o AssetsDir
       [] k = "${version_type}" -> "release"
       [] k = "${resolution_width}" -> "856"
       [] OTHER -> "482"]

\* The loop over args: a token that is a key of fields becomes its value.
SubstituteNone(args, fields) == args
Substitute(args, fields) ==
  [i \in 1..Len(args) |-> IF args[i] \in DOMAIN fields THEN fields[args[i]] ELSE args[i]]

\* file.minecraftArguments ? file.minecraftArguments.split(' ') : file.arguments.game
GameArgs(m) == IF m.minecraftArguments # <<>> THEN m.minecraftArguments ELSE m.arguments[1]

\* The game jar put at the end of the classpath; custom is <<>> for null.
GameJarBase(r, ver, custom) == VersionJar(r, ver)
GameJar(r, ver, custom) ==
  IF custom = <<>> \/ Includes(custom, "fabric")
  THEN VersionJar(r, ver) ELSE VersionJar(r, Id(custom))

Threw(o, at) == [NoLaunch EXCEPT !.status = "threw", !.at = at, !.options = o]

\* launch(options), a synchronous function: one action.  It throws where a
\* read fails (the version pattern does not match, a metadata file or the
\* libraries directory is missing) and spawns java otherwise.
Launch(o) ==
  /\ LoopIdle
  /\ LET r == o.gameDirectory
         m == Match(o.version)
         ver == m[1]
         custom == IF o.version # <<ver>> THEN o.version ELSE <<>>
         basePath == VersionJson(r, ver)
         base == MetaAt(disk[basePath])
         d1 == CreateProfile(disk, r)
         uuid == Auth(d1, r, o.username)
         customPath == VersionJson(r, Id(custom))
         over == OverlayAt(d1[customPath])
         d2 == IF custom # <<>> /\ OptionsPath(r) \in DOMAIN d1 THEN Unlink(d1, OptionsPath(r)) ELSE d1
         reqLibs == IF custom = <<>> THEN BaseLibs(base) ELSE BaseLibs(base) \cup OverlayLibs(over)
         mainClass == IF custom = <<>> THEN base.mainClass ELSE over.mainClass
         gameArgs == IF custom = <<>> THEN GameArgs(base)
                     ELSE IF over.arguments = <<>> THEN over.minecraftArguments
                     ELSE GameArgs(base) \o over.arguments[1]
         jar == GameJar(r, ver, custom)
         fields == Fields(uuid, o.username, ver, r)
     IN IF m = <<>>
        THEN launched' = Threw(o, "match") /\ disk' = disk
        ELSE IF ~ (basePath \in DOMAIN disk /\ IsMeta(disk[basePath]))
        THEN launched' = Threw(o, "base") /\ disk' = disk
        ELSE IF custom # <<>> /\ ~ (customPath \in DOMAIN d1 /\ IsOverlay(d1[customPath]))
        THEN launched' = Threw(o, "overlay") /\ disk' = d1
        ELSE IF <<r, LibrariesDir>> \notin dirs
        THEN launched' = Threw(o, "scan") /\ disk' = d2
        ELSE /\ disk' = d2
             /\ launched' =
                  [status |-> "spawned", at |-> "", options |-> o, reqLibs |-> reqLibs,
                   libs |-> EncontrarArchivosJAR(d2, dirs, <<r, LibrariesDir>>, reqLibs, ver),
                   jar |-> {jar},
                   mainClass |-> Substitute(<<mainClass>>, fields)[1],
                   jvm |-> Substitute(
                             << "-Djava.library.path=" \o r \o "/" \o NativesDir \o "/" \o ver,
                                "-Xmx" \o o.max, "-Xms" \o o.min,
                                "-XX:HeapDumpPath=MojangTricksIntelDriversForPerformance_javaw.exe_minecraft.exe.heapdump",
                                "-cp" >>, fields),
                   game |-> Substitute(gameArgs, fields)]
  /\ UNCHANGED <<version, root, file, pc, promise, requests, dirs, console, outcome, thrown, netCalls>>

\* The game directory launch() may find: empty, or one where 1.19, 1.14.2 and
\* 1.20 were downloaded earlier and the overlay profiles were installed, with
\* a user cache and an options file.  Its libraries hold the jars of those
\* versions, the lwjgl 3.2.1 jar a second time in another directory, a file
\* that is no jar and the jars of the two loaders.
Downloaded == {"1.19", "1.14.2", "1.20"}
Installed ==
  LET r == CHOOSE x \in Roots : TRUE
      files == {VersionJson(r, v) : v \in Downloaded}
               \cup {VersionJar(r, v) : v \in Downloaded}
               \cup {VersionJson(r, Id(Fabric.id)), VersionJson(r, Id(Forge.id)),
                      VersionJar(r, Id(Forge.id)),
                      File(<<r, LibrariesDir, "net", "fabricmc">>, <<"fabric", "loader", "0.14">>, "jar"),
                      File(<<r, LibrariesDir, "net", "minecraftforge">>, <<"forge", "41">>, "jar"),
                      File(<<r, LibrariesDir, "com", "mojang">>, <<"logging", "1.0">>, "jar"),
                      File(<<r, LibrariesDir, "org", "lwjgl">>, <<"lwjgl", "3.2.1">>, "jar"),
                      File(<<r, LibrariesDir, "org", "lwjgl", "old">>, <<"lwjgl", "3.2.1">>, "jar"),
                      File(<<r, LibrariesDir, "org", "lwjgl">>, <<"lwjgl", "3.2.1">>, "sha1"),
                      OptionsPath(r), UserCachePath(r)}
  IN [p \in files |->
        IF p = VersionJson(r, Id(Fabric.id)) THEN Installer(Fabric)
        ELSE IF p = VersionJson(r, Id(Forge.id)) THEN Installer(Forge)
        ELSE IF p \in {VersionJson(r, v) : v \in Downloaded}
             THEN Url("piston-meta.mojang.com", <<p.stem[1], "json">>)
        ELSE IF p = UserCachePath(r) THEN Local("Steve")
        ELSE Local("installed")]
InstalledDirs ==
  UNION {Prefixes(p.dir) : p \in DOMAIN Installed}

InitLaunch ==
  /\ version = Undefined
  /\ root = Undefined
  /\ file = NoFile
  /\ pc = [c \in Calls |-> "idle"]
  /\ promise = [c \in Calls |-> [s \in StepSet |-> "none"]]
  /\ requests = <<>>
  /\ \/ disk = EmptyDisk /\ dirs = {}
     \/ disk = Installed /\ dirs = InstalledDirs
  /\ console = {}
  /\ outcome = {}
  /\ thrown = [c \in Calls |-> "none"]
  /\ netCalls = [c \in Calls |-> 0]
  /\ launched = NoLaunch

\* What the event loop runs once download() has been called: the ends of the
\* transfers and the promise jobs.
Progress ==
  \/ \E i \in DOMAIN requests : ManifestFinish(i)
  \/ \E i \in DOMAIN requests : ManifestError(i)
  \/ \E i \in DOMAIN requests : MetaFinish(i)
  \/ \E i \in DOMAIN requests : MetaError(i)
  \/ \E c \in Calls : DownloadClient(c)
  \/ \E i \in DOMAIN requests : ClientFinish(i)
  \/ \E i \in DOMAIN requests : ClientError(i)
  \/ \E c \in Calls : DownloadAssets(c)
  \/ \E i \in DOMAIN requests : IndexFinish(i)
  \/ \E i \in DOMAIN requests : IndexError(i)
  \/ \E i \in DOMAIN requests : MirrorFinish(i)
  \/ \E i \in DOMAIN requests : AssetFinish(i)
  \/ \E i \in DOMAIN requests : AssetError(i)
  \/ \E c \in Calls : DownloadLibraries(c)
  \/ \E i \in DOMAIN requests : LibraryFinish(i)
  \/ \E i \in DOMAIN requests : LibraryError(i)
  \/ \E c \in Calls : DownloadNatives(c)
  \/ \E i \in DOMAIN requests : NativeFinish(i)
  \/ \E i \in DOMAIN requests : NativeError(i)
  \/ \E c \in Calls : DownloadResolve(c)
  \/ \E c \in Calls : DownloadThrow(c)

\* download() is called at most n times with a version of vs, each time on an
\* instance at rest.
Calling(n, vs) ==
  \E c \in 1..n, v \in vs, r \in Roots : AtRest /\ Download(c, v, r)

Next ==
  \/ Calling(MaxCalls, Requested)
  \/ Progress

Spec == Init /\ [][Next]_vars

\* The Downloader fetching 1.8 into the game directory, with launch() called
\* at any moment between two callbacks.
NextLaunch ==
  \/ Calling(MaxLaunchCalls, {"1.8"})
  \/ Progress
  \/ \E o \in Options : Launch(o)

SpecLaunch == InitLaunch /\ [][NextLaunch]_vars

\* One instance used for two versions: download() is called for the second
\* at any moment after the first call, also while the first is in flight or
\* its transfers are (download() resolves before they end).
Asked == <<"1.8", "1.19">>
CallingOverlap ==
  \E c \in DOMAIN Asked \cap Calls, r \in Roots : Download(c, Asked[c], r)

NextOverlap ==
  \/ CallingOverlap
  \/ Progress

SpecOverlap == Init /\ [][NextOverlap]_vars

\* The same two versions asked for by a caller that awaits each download():
\* the second call is made once the promise of the first is resolved.
CallingAwaited ==
  \E c \in DOMAIN Asked \cap Calls, r \in Roots :
    /\ c > 1 => promise[c - 1]["download"] = "resolved"
    /\ Download(c, Asked[c], r)

NextAwaited ==
  \/ CallingAwaited
  \/ Progress

SpecAwaited == Init /\ [][NextAwaited]_vars

\* ======================================================== the properties
\* The call that set this.version, this.root and this.file as they are now.
Latest(c) == pc[c] # "idle" /\ \A b \in Calls : b > c => pc[b] = "idle"

OpenOf(c, kinds) == {i \in DOMAIN requests : requests[i].call = c /\ requests[i].kind \in kinds}
Items == {"asset", "library", "native"}
Errors(kinds) == {o \in outcome : o.kind \in kinds /\ o.what = "error"}

\* The files a finished download of the metadata m leaves under root r.
ObjectsOf(r, index) == {ObjectPath(r, index[k].hash) : k \in DOMAIN index}
JarsOf(r, m) ==
  {LibPath(r, m.libraries[n].artifact[1]) :
     n \in {k \in 1..Len(m.libraries) : m.libraries[k].artifact # NoArtifact}}
Complete(r, m) ==
  {ManifestPath(r), VersionJson(r, m.id), VersionJar(r, m.id), IndexPath(r, m.id),
   MirrorPath(r, m.id)} \cup ObjectsOf(r, IndexAt(m.assetIndex)) \cup JarsOf(r, m)
     \subseteq DOMAIN disk

\* C1: when download()'s promise is resolved every step has completed: the
\* metadata and the client jar are on disk, no asset, library or native
\* transfer is still open, every library jar is present and every asset object
\* has been fetched or has failed.
ResolvedMeansComplete ==
  \A c \in Calls :
    (Latest(c) /\ promise[c]["download"] = "resolved") =>
      /\ {VersionJson(root, version), VersionJar(root, version)} \subseteq DOMAIN disk
      /\ OpenOf(c, Items) = {}
      /\ \A p \in JarsOf(root, file) :
           p \in DOMAIN disk \/ Errors({"library"}) # {}
      /\ \A n \in 1..Len(IndexKeys) :
           \E o \in outcome : o.kind = "asset" /\ o.item = n

\* C2: the steps of one download() start in the order version, client,
\* assets, libraries, natives, each only once the promise of the step before
\* it is resolved, and this.file holds the version's parsed metadata from the
\* client step on, before the later steps read it.
StepsInOrder ==
  /\ \A c \in Calls : \A k \in 2..Len(Steps) :
       promise[c][Steps[k]] # "none" => promise[c][Steps[k - 1]] = "resolved"
  /\ \A c \in Calls :
       (Latest(c) /\ promise[c]["assets"] # "none") => (file # NoFile /\ file.id = version)

StepsInOrderSeen ==
  \E c \in Calls : pc[c] = "done" /\ promise[c]["natives"] = "resolved" /\ file.id = version

\* C3: when the transfer of the manifest, of the metadata document or of the
\* client jar has failed and nothing is left to run, download()'s promise is
\* rejected, and the asset, library and native steps were never started.
FatalTransfers == {"manifest", "meta", "client"}
FatalFailureRejects ==
  \A c \in Calls :
    (thrown[c] \in FatalTransfers /\ AtRest) =>
      /\ promise[c]["download"] = "rejected"
      /\ \A s \in {"assets", "libraries", "natives"} : promise[c][s] = "none"

\* C4: the lookup yields the metadata URL of the manifest's release entry for
\* the version; without such an entry the failure reaches the caller
\* (download()'s promise is rejected once nothing is left to run) and no
\* metadata document is fetched.
VersionLookup ==
  \A c \in Calls :
    /\ \A i \in OpenOf(c, {"meta"}) :
         \E k \in DOMAIN ManifestDoc :
           /\ ManifestDoc[k].type = "release" /\ ManifestDoc[k].id = version
           /\ requests[i].url = ManifestDoc[k].url
    /\ thrown[c] = "lookup" =>
         /\ Latest(c) => Found(ManifestDoc, version) = {}
         /\ netCalls[c] = 1
         /\ AtRest => promise[c]["download"] = "rejected"

\* C5 as stated: the failure of an asset, library or native transfer is
\* logged at that item, and it never rejects its step or download().
NotEscalated ==
  \A c \in Calls :
    /\ \A s \in {"assets", "libraries", "natives"} : promise[c][s] # "rejected"
    /\ (Latest(c) /\ promise[c]["download"] = "rejected") => version = ""
    /\ pc[c] # "threw" \/ thrown[c] \in {"meta", "client"}

\* Every item of a batch is dispatched whatever becomes of its siblings: once a
\* step's promise is resolved each of its items is open or has ended.
Accounted(c, kind, n) ==
  \/ \E i \in OpenOf(c, {kind}) : requests[i].item = n
  \/ \E o \in outcome : o.kind = kind /\ o.item = n
AllDispatched ==
  \A c \in Calls : Latest(c) =>
    /\ promise[c]["assets"] = "resolved" =>
         \A n \in 1..Len(IndexKeys) : Accounted(c, "asset", n)
    /\ promise[c]["libraries"] = "resolved" =>
         \A n \in 1..Len(file.libraries) :
           file.libraries[n].artifact # NoArtifact => Accounted(c, "library", n)
    /\ promise[c]["natives"] = "resolved" =>
         \A n \in 1..Len(file.libraries) :
           PickNative(file.libraries[n].classifiers) # {} => Accounted(c, "native", n)

Logged(kinds) ==
  \A o \in Errors(kinds) : [kind |-> o.kind, item |-> o.item, what |-> "error"] \in console

BatchFailureDetectable ==
  \A c \in Calls :
    (Latest(c) /\ AtRest /\ Errors({"library", "native"}) # {}) =>
      \/ promise[c]["libraries"] = "rejected"
      \/ promise[c]["natives"] = "rejected"
      \/ promise[c]["download"] = "rejected"

\* C7 as stated: at most maxSockets transfers are in flight over all hosts.
InFlight == {i \in DOMAIN requests : requests[i].st = "active"}
Hosts == {requests[i].url.host : i \in DOMAIN requests}
GlobalCeiling == Cardinality(InFlight) <= MaxSockets

\* C7 amended: at most maxSockets transfers are in flight to any one host.
PerHostCeiling == \A h \in Hosts : ActiveOn(requests, h) <= MaxSockets

CeilingSeen ==
  \E h \in Hosts : ActiveOn(requests, h) = MaxSockets /\ Waiting(requests, h) # {}

\* C8: no two transfers in flight at one time write to one destination path.
DistinctDestinations ==
  \A i, j \in InFlight : i # j => requests[i].dest # requests[j].dest

\* C9: a download() called when the version's directory is complete makes no
\* network transfer (the call is seen before any of its own transfers ends,
\* so the files on disk are the ones it found).
SecondRunNoTransfers ==
  \A c \in Calls :
    ( /\ c > 1 /\ Latest(c) /\ pc[c] = "version" /\ OpenOf(c, {"manifest"}) # {}
      /\ \E k \in Found(ManifestDoc, version) : Complete(root, MetaAt(ManifestDoc[k].url)) )
    => netCalls[c] = 0

\* C10: launch() spawns java only when the files of the launch plan are on
\* disk: the base metadata, the overlay's metadata, the game jar it puts on the
\* classpath and a jar for every required library.
SpawnOnlyWhenAssembled ==
  launched.status = "spawned" =>
    LET o == launched.options
        r == o.gameDirectory
        ver == Match(o.version)[1]
    IN /\ VersionJson(r, ver) \in DOMAIN disk
       /\ o.version # <<ver>> => VersionJson(r, Id(o.version)) \in DOMAIN disk
       /\ launched.jar \subseteq DOMAIN disk
       /\ \A b \in launched.reqLibs :
            \E p \in DOMAIN disk : IsUnder(p.dir, <<r, LibrariesDir>>) /\ Basename(p) = b

\* A step of launch(): every step of the Downloader changes pc or requests.
LaunchStep == UNCHANGED <<pc, requests>>
\* The version string names an overlay; launch() has loaded the metadata.
Overlay(o) == Match(o.version) # <<>> /\ o.version # <<Match(o.version)[1]>>
BaseLoaded(l) == l.status = "spawned" \/ l.at \in {"overlay", "scan"}
Loaded(l) == l.status = "spawned" \/ l.at = "scan"
\* The files other than those of `but` are the same, with the same content.
Same(d, e, but) ==
  /\ DOMAIN d \ but = DOMAIN e \ but
  /\ \A p \in DOMAIN d \ but : d[p] = e[p]
\* options.txt is there after launch() iff it was there and launch() did not
\* load an overlay.
OptionsDeletedForOverlay(o, l, d, e) ==
  OptionsPath(o.gameDirectory) \in DOMAIN e <=>
    (OptionsPath(o.gameDirectory) \in DOMAIN d /\ ~ (Overlay(o) /\ Loaded(l)))

\* C11 as stated: a step of launch() creates, writes and deletes no file and
\* no directory, but for options.txt, which it deletes when and only when an
\* overlay is selected, and it starts no transfer.
LaunchOnlyReads ==
  [][LaunchStep =>
       LET o == launched'.options
       IN /\ Same(disk, disk', {OptionsPath(o.gameDirectory)})
          /\ OptionsDeletedForOverlay(o, launched', disk, disk')
          /\ dirs' = dirs /\ netCalls' = netCalls /\ requests' = requests
    ]_vars

\* C11 amended: launch() also writes launcher_profiles.json, when it has read
\* the base metadata and the file is not there; a file that is there is left
\* as it is.
LaunchWritesProfileOnly ==
  [][LaunchStep =>
       LET o == launched'.options
           prof == ProfilesPath(o.gameDirectory)
       IN /\ Same(disk, disk', {OptionsPath(o.gameDirectory), prof})
          /\ OptionsDeletedForOverlay(o, launched', disk, disk')
          /\ prof \in DOMAIN disk => (prof \in DOMAIN disk' /\ disk'[prof] = disk[prof])
          /\ prof \in DOMAIN disk' <=> (prof \in DOMAIN disk \/ BaseLoaded(launched'))
          /\ dirs' = dirs /\ netCalls' = netCalls /\ requests' = requests
    ]_vars

LaunchWritesProfileOnlySeen ==
  /\ launched.status = "spawned" /\ Overlay(launched.options)
  /\ ProfilesPath(launched.options.gameDirectory) \in DOMAIN disk
  /\ OptionsPath(launched.options.gameDirectory) \notin DOMAIN disk
  /\ requests # <<>>

\* What a spawned launch() was called with and what it read.
Spawned(l) == l.status = "spawned"
Ver(l) == Match(l.options.version)[1]
BaseOf(l, d) == MetaAt(d[VersionJson(l.options.gameDirectory, Ver(l))])
OverlayOf(l, d) == OverlayAt(d[VersionJson(l.options.gameDirectory, Id(l.options.version))])
LibraryJars(l, d) ==
  {p \in DOMAIN d : IsUnder(p.dir, <<l.options.gameDirectory, LibrariesDir>>) /\ p.ext = "jar"}

\* The jar names an overlay requires: <artifact>-<version>.jar for each of the
\* coordinates group:artifact:version it lists.
NamedJars(over) ==
  {[stem |-> over.libraries[k].name.artifact \o <<over.libraries[k].name.ver>>, ext |-> "jar"] :
     k \in DOMAIN over.libraries}

\* C12 as stated: a launch of an overlay has the overlay's main class, every
\* jar of the libraries root that the base or the overlay requires on its
\* classpath, and one game jar, the base's.
OverlayMerge ==
  [][(LaunchStep /\ Spawned(launched') /\ Overlay(launched'.options)) =>
       LET l == launched'
           base == BaseOf(l, disk')
           over == OverlayOf(l, disk')
       IN /\ l.mainClass = over.mainClass
          /\ \A p \in LibraryJars(l, disk') :
               Basename(p) \in BaseLibs(base) \cup NamedJars(over) => p \in l.libs
          /\ l.jar = {VersionJar(l.options.gameDirectory, Ver(l))}
    ]_vars

\* C12 amended: the required jars are on the classpath but for those named
\* 3.2.1 outside the legacy versions, and the one game jar is the base's for
\* an overlay id that includes "fabric" and the overlay's own otherwise.
OverlayMergeByLoader ==
  [][(LaunchStep /\ Spawned(launched') /\ Overlay(launched'.options)) =>
       LET l == launched'
           base == BaseOf(l, disk')
           over == OverlayOf(l, disk')
       IN /\ l.mainClass = over.mainClass
          /\ \A p \in LibraryJars(l, disk') :
               ( /\ Basename(p) \in BaseLibs(base) \cup NamedJars(over)
                 /\ (Includes(p.stem, "3.2.1") => Ver(l) \in LegacyVersions) ) => p \in l.libs
          /\ l.jar = { IF Includes(l.options.version, "fabric")
                       THEN VersionJar(l.options.gameDirectory, Ver(l))
                       ELSE VersionJar(l.options.gameDirectory, Id(l.options.version)) }
    ]_vars

OverlayMergeSeen ==
  /\ Spawned(launched) /\ launched.options.version = Fabric.id
  /\ launched.mainClass = Fabric.mainClass
  /\ \E p \in launched.libs : Basename(p) \in NamedJars(Fabric)
  /\ \E p \in launched.libs : Basename(p) \in BaseLibs(Meta119)
  /\ launched.jar = {VersionJar(launched.options.gameDirectory, "1.19")}

\* C13 as stated: the game jar is the overlay's own when the overlay id is
\* prefixed "fabric", and the base's in every other launch.
FullDistribution(id) == Head(id) = "fabric"
GameJarSelection ==
  Spawned(launched) =>
    launched.jar = { IF Overlay(launched.options) /\ FullDistribution(launched.options.version)
                     THEN VersionJar(launched.options.gameDirectory, Id(launched.options.version))
                     ELSE VersionJar(launched.options.gameDirectory, Ver(launched)) }

\* C13 amended: the game jar is the base's without overlay and for an overlay
\* id that includes "fabric", and the overlay's own for every other overlay.
GameJarByLoader ==
  Spawned(launched) =>
    launched.jar = { IF Overlay(launched.options) /\ ~ Includes(launched.options.version, "fabric")
                     THEN VersionJar(launched.options.gameDirectory, Id(launched.options.version))
                     ELSE VersionJar(launched.options.gameDirectory, Ver(launched)) }

GameJarByLoaderSeen ==
  /\ Spawned(launched) /\ launched.options.version = Forge.id
  /\ launched.jar = {VersionJar(launched.options.gameDirectory, Id(Forge.id))}

\* C14: the game arguments launch() passes are the tokens of the argument
\* template in their order and number, each known placeholder replaced by its
\* value (the player name for ${auth_player_name}), every other token as it is.
Template(l, d) ==
  IF ~ Overlay(l.options) THEN GameArgs(BaseOf(l, d))
  ELSE IF OverlayOf(l, d).arguments = <<>> THEN OverlayOf(l, d).minecraftArguments
  ELSE GameArgs(BaseOf(l, d)) \o OverlayOf(l, d).arguments[1]
PlaceholdersSubstituted ==
  Spawned(launched) =>
    LET o == launched.options
        t == Template(launched, disk)
        values == Fields(Auth(disk, o.gameDirectory, o.username), o.username, Ver(launched),
                         o.gameDirectory)
    IN /\ Len(launched.game) = Len(t)
       /\ \A i \in 1..Len(t) :
            /\ t[i] \notin Placeholders => launched.game[i] = t[i]
            /\ t[i] \in Placeholders => launched.game[i] = values[t[i]]
            /\ t[i] = "${auth_player_name}" => launched.game[i] = o.username

PlaceholdersSubstitutedSeen ==
  /\ Spawned(launched)
  /\ \E i \in 1..Len(launched.game) :
       /\ launched.game[i] = "Steve"
       /\ Template(launched, disk)[i] = "${auth_player_name}"
  /\ \E i \in 1..Len(launched.game) : launched.game[i] = "${unknown}"

\* C15: the classpath of a spawned launch() holds no two library jars with
\* the same basename.
NoDuplicateBasenames ==
  Spawned(launched) =>
    \A p, q \in launched.libs : Basename(p) = Basename(q) => p = q

\* C16: the scan returns exactly the jars of the libraries root whose name is
\* required, those named 3.2.1 only for the versions 1.14 to 1.14.3.
ScanExact ==
  [][(LaunchStep /\ Spawned(launched')) =>
       launched'.libs =
         {p \in LibraryJars(launched', disk') :
            /\ Basename(p) \in launched'.reqLibs
            /\ (Includes(p.stem, "3.2.1") => Ver(launched') \in LegacyVersions)}
    ]_vars

ScanExactSeen ==
  /\ Spawned(launched) /\ Ver(launched) = "1.14.2"
  /\ \E p \in launched.libs : Includes(p.stem, "3.2.1")
  /\ \E p \in LibraryJars(launched, disk) : p \notin launched.libs

\* C17: the bundle the native step fetches for a library entry is the one of
\* the platform+arch key when the entry has it, the one of the platform-only
\* key otherwise, and an entry with neither key is fetched nothing for.
ExactFirst(el) ==
  IF \E n \in el : n.key = "natives-windows-64"
  THEN {n \in el : n.key = "natives-windows-64"}
  ELSE {n \in el : n.key = "natives-windows"}
NativeSelection ==
  \A i \in DOMAIN requests :
    (requests[i].kind = "native" /\ file # NoFile /\ requests[i].item \in DOMAIN file.libraries) =>
      \E n \in ExactFirst(file.libraries[requests[i].item].classifiers) :
        requests[i].url = n.url

\* C18: a native bundle is unpacked only once its download has ended, its
\* scratch archive is gone once it has been processed, and the bundle of 1.8
\* from the nightly channel is never unpacked.
IsScratch(p) == Len(p.dir) = 2 /\ p.dir[2] = NativesDir
IsExtracted(p) == Len(p.dir) = 3 /\ p.dir[2] = NativesDir
NativeStepsOrdered ==
  /\ \A p \in DOMAIN disk : IsExtracted(p) =>
       /\ ~ Includes(disk[p].path, "nightly")
       /\ \A i \in DOMAIN requests : requests[i].kind = "native" => requests[i].url # disk[p]
  /\ AtRest => \A p \in DOMAIN disk : ~ IsScratch(p)

\* C19: download() with an empty version rejects and does nothing else: no
\* transfer, no directory, no step.
EmptyVersionNoEffect ==
  \A c \in Calls :
    (Latest(c) /\ version = "") =>
      /\ promise[c]["download"] = "rejected"
      /\ netCalls[c] = 0
      /\ \A s \in StepNames : promise[c][s] = "none"
      /\ c = 1 => dirs = {}

\* C20: each of two download() calls whose steps interleave fetches from the
\* metadata of the version it was asked for and writes under that version's
\* paths only.
OwnMeta(c) == MetaAt(Url("piston-meta.mojang.com", <<Asked[c], "json">>))
OwnTransfer(rq) ==
  LET v == Asked[rq.call]
      m == OwnMeta(rq.call)
  IN CASE rq.kind = "meta" -> rq.dest = VersionJson(root, v) /\ IsMeta(rq.url) /\ MetaAt(rq.url) = m
       [] rq.kind = "client" -> rq.dest = VersionJar(root, v) /\ rq.url = m.client
       [] rq.kind = "index" -> rq.dest = IndexPath(root, v) /\ rq.url = m.assetIndex
       [] rq.kind = "mirror" -> rq.dest = MirrorPath(root, v) /\ rq.url = m.assetIndex
       [] rq.kind = "asset" -> rq.dest \in ObjectsOf(root, IndexAt(m.assetIndex))
       [] rq.kind = "library" -> rq.dest \in JarsOf(root, m)
       [] rq.kind = "native" ->
            \E k \in DOMAIN m.libraries : \E n \in m.libraries[k].classifiers : rq.url = n.url
       [] OTHER -> TRUE
OwnVersionOnly ==
  /\ \A i \in DOMAIN requests : OwnTransfer(requests[i])
  /\ \A p \in DOMAIN disk : IsExtracted(p) =>
       \E c \in DOMAIN Asked :
         /\ p.dir[3] = Asked[c]
         /\ \E k \in DOMAIN OwnMeta(c).libraries :
              \E n \in OwnMeta(c).libraries[k].classifiers : disk[p] = n.url

====
